---- MODULE Spec2Model ----
(***************************************************************************)
(* The single-flight clone cache of concurrent_git_pool (Pool in pool.rs). *)
(* Every task makes one call on one shared Pool: lookup, lookup_or_clone   *)
(* or clone_in.  A task's pc is the await point (or the synchronous        *)
(* stretch under the cache mutex) it stands at; the line numbers are those *)
(* of concurrent_git_pool/src/pool.rs.                                     *)
(***************************************************************************)
EXTENDS Naturals, FiniteSets, Sequences, TLC

\* ------------------------------------------------------------- bounds
NumTasks == 2
NumRemotes == 2

Tasks == 1..NumTasks
NoTask == 0
AllRemotes == <<"u1", "u2", "u3">>
Remotes == {AllRemotes[i] : i \in 1..NumRemotes}

\* ------------------------------------------------------------- values
\* Pool.root: the TempDir's path.
root == "pool_root"

\* Exit states of a git child; "exit0" is the only one with status.success().
ExitStates == {"exit0", "exit128"}

NoVal == [tag |-> "NoVal"]
None == [tag |-> "None"]
Some(r) == [tag |-> "Some", val |-> r]
Ok(p) == [tag |-> "Ok", path |-> p]
Err(kind, detail) == [tag |-> "Err", kind |-> kind, detail |-> detail]
OkUnit == [tag |-> "Ok"]

\* impl From<io::Error> for ServiceError
IoError == Err("IoError", "spawn failed")

\* CacheEntry, and the absence of a key in the HashMap.
Vacant == [tag |-> "Vacant"]
Cloning == [tag |-> "Cloning"]
Available(r) == [tag |-> "Available", val |-> r]

\* Mutant: the destination is named after the length of the remote, so
\* remotes of equal length share a directory.
dest_dir_name_ByLength(remote) == <<"len", Len(remote)>>

\* lookup_or_clone lines 81-85: hex SHA-256 of the remote, a name that
\* depends on the remote alone and differs from the remote itself.
dest_dir_name(remote) == <<"sha256", remote>>

\* Path::join
join(dir, name) == <<dir, name>>

\* Mutant: the destination path is returned whatever the exit status (the
\* clone_repo of the earlier cache).
clone_repo_result_IgnoresStatus(remote, status) ==
    Ok(join(root, dest_dir_name(remote)))

\* clone_repo lines 138-141: the result once the child's status is known.
clone_repo_result(remote, status) ==
    IF status = "exit0"
    THEN Ok(join(root, dest_dir_name(remote)))
    ELSE Err("CloneFailed", status)

\* Result<ServiceResult<()>, RpcError>, the return type of Client::clone_in
\* and PoolHelper::clone_in.
RpcOk(r) == [tag |-> "RpcOk", val |-> r]
RpcError == [tag |-> "RpcError", kind |-> "DeadlineExceeded"]

VARIABLES
    cache,      \* Pool.cache: remote -> Vacant | Cloning | Available(result)
    mutex,      \* holder of the tokio Mutex around the map, or NoTask
    request,    \* per remote, the Shared future stored in Cloning
    child,      \* per remote, the git child of clone_repo
    spawned,    \* per remote, how often clone_repo ran Command::status
    pc,         \* per task, where it stands
    op,         \* per task, the Pool method it called
    uri,        \* per task, the remote it passed
    ret,        \* per task, the value of lookup / lookup_or_clone
    observed,   \* per task, what its match on the cache saw
    wc,         \* per task, the working-copy git child of clone_in
    ci_ret,     \* per task, the value clone_in returned
    wc_cmd,     \* per task, the arguments of its working-copy command
    wc_env,     \* per task, the environment set for its working-copy command
    child_cmd,  \* per remote, the command clone_repo spawned
    root_dir,   \* the directory of Pool.root: exists or removed
    env_var,    \* CONCURRENT_GIT_POOL in the caller's environment: set or unset
    inner,      \* the field `inner` of the process's PoolHelper
    built_env,  \* what env_var was when connect_or_local read it
    call,       \* per task, the branch its PoolHelper::clone_in call took
    ph_ret,     \* per task, the value PoolHelper::clone_in returned
    sent        \* per task, how many requests its call sent to the Server

\* The state of the PoolHelper side.
hvars == <<env_var, inner, built_env, call, ph_ret, sent>>

vars == <<cache, mutex, request, child, spawned, pc, op, uri, ret, observed, wc, ci_ret,
          wc_cmd, hvars, root_dir, child_cmd, wc_env>>

\* The Shared future of one remote: not created, created and never polled,
\* polled with its child running, or completed with its output.
NoRequest == [st |-> "None"]
Lazy == [st |-> "Lazy"]
Pending == [st |-> "Pending"]
Ready(r) == [st |-> "Ready", out |-> r]

Init ==
    /\ cache = [r \in Remotes |-> Vacant]
    /\ mutex = NoTask
    /\ request = [r \in Remotes |-> NoRequest]
    /\ child = [r \in Remotes |-> "none"]
    /\ spawned = [r \in Remotes |-> 0]
    /\ pc = [t \in Tasks |-> "idle"]
    /\ op = [t \in Tasks |-> "none"]
    /\ uri = [t \in Tasks |-> "none"]
    /\ ret = [t \in Tasks |-> NoVal]
    /\ observed = [t \in Tasks |-> "none"]
    /\ wc = [t \in Tasks |-> "none"]
    /\ ci_ret = [t \in Tasks |-> NoVal]
    /\ wc_cmd = [t \in Tasks |-> <<>>]
    /\ wc_env = [t \in Tasks |-> {}]
    /\ child_cmd = [r \in Remotes |-> NoVal]
    /\ root_dir = "exists"
    /\ env_var = "unset"
    /\ inner = "unbuilt"
    /\ built_env = "none"
    /\ call = [t \in Tasks |-> "none"]
    /\ ph_ret = [t \in Tasks |-> NoVal]
    /\ sent = [t \in Tasks |-> 0]

\* A task calls Pool::lookup or Pool::lookup_or_clone; an async fn runs
\* nothing before its first poll.
Call(t) ==
    /\ pc[t] = "idle"
    /\ \E o \in {"lookup", "lookup_or_clone"}, r \in Remotes :
          /\ op' = [op EXCEPT ![t] = o]
          /\ uri' = [uri EXCEPT ![t] = r]
          /\ pc' = [pc EXCEPT ![t] = IF o = "lookup" THEN "lk_lock" ELSE "loc_lock"]
    /\ UNCHANGED <<cache, mutex, request, child, spawned, ret, observed, wc, ci_ret, wc_cmd, hvars, root_dir, child_cmd, wc_env>>

\* Mutant: clone_in computes the pool path itself and goes to the working
\* copy without waiting for the pooled clone.
CallCloneIn_NoWait(t) ==
    /\ pc[t] = "idle"
    /\ \E r \in Remotes :
          /\ op' = [op EXCEPT ![t] = "clone_in"]
          /\ uri' = [uri EXCEPT ![t] = r]
          /\ ret' = [ret EXCEPT ![t] = Ok(join(root, dest_dir_name(r)))]
          /\ pc' = [pc EXCEPT ![t] = "ci_command"]
    /\ UNCHANGED <<cache, mutex, request, child, spawned, observed, wc, ci_ret, wc_cmd, hvars, root_dir, child_cmd, wc_env>>

\* A task calls Pool::clone_in, whose line 40 starts with lookup_or_clone.
CallCloneIn(t) ==
    /\ pc[t] = "idle"
    /\ \E r \in Remotes :
          /\ op' = [op EXCEPT ![t] = "clone_in"]
          /\ uri' = [uri EXCEPT ![t] = r]
          /\ pc' = [pc EXCEPT ![t] = "loc_lock"]
    /\ UNCHANGED <<cache, mutex, request, child, spawned, ret, observed, wc, ci_ret, wc_cmd, hvars, root_dir, child_cmd, wc_env>>

\* ------------------------------------------------ Pool::lookup_or_clone
\* Mutant: only Available counts as occupied, an entry still Cloning is
\* taken for a vacant one.
EntryKind_NoInFlight(e) ==
    IF e.tag = "Available" THEN "Settled" ELSE "Vacant"

\* Mutant: a failed clone is not kept, Available(Err) is taken for vacant.
EntryKind_RetriesErr(e) ==
    IF e.tag = "Vacant" THEN "Vacant"
    ELSE IF e.tag = "Cloning" THEN "InFlight"
    ELSE IF e.val.tag = "Err" THEN "Vacant"
    ELSE "Settled"

\* What `match cache.entry(remote)` (line 90) finds for an entry.
EntryKind(e) ==
    IF e.tag = "Vacant" THEN "Vacant"
    ELSE IF e.tag = "Cloning" THEN "InFlight"
    ELSE "Settled"

\* The value lookup_or_clone hands back to its caller t: a plain
\* lookup_or_clone returns it; clone_in (line 40) unwraps it, which panics
\* on Err and otherwise goes on to build the working-copy command.
AfterLookupOrClone(t, r) ==
    IF op[t] = "clone_in"
    THEN IF r.tag = "Err" THEN "panicked" ELSE "ci_command"
    ELSE "done"

\* Mutant: every handler works on a Pool of its own, for which its remote
\* has no entry yet.
LocAcquire_FreshPool(t) ==
    /\ pc[t] = "loc_lock"
    /\ mutex = NoTask
    /\ mutex' = t
    /\ cache' = [cache EXCEPT ![uri[t]] = Vacant]
    /\ pc' = [pc EXCEPT ![t] = "loc_match"]
    /\ UNCHANGED <<request, child, spawned, op, uri, ret, observed, wc, ci_ret, wc_cmd, hvars, root_dir, child_cmd, wc_env>>

\* Line 89: `self.cache.lock().await` completes.
LocAcquire(t) ==
    /\ pc[t] = "loc_lock"
    /\ mutex = NoTask
    /\ mutex' = t
    /\ pc' = [pc EXCEPT ![t] = "loc_match"]
    /\ UNCHANGED <<cache, request, child, spawned, op, uri, ret, observed, wc, ci_ret, wc_cmd, hvars, root_dir, child_cmd, wc_env>>

\* Lines 91-94: Occupied, Available(p): return p; the guard drops on return.
LocAvailable(t) ==
    /\ pc[t] = "loc_match"
    /\ EntryKind(cache[uri[t]]) = "Settled"
    /\ observed' = [observed EXCEPT ![t] = "Settled"]
    /\ ret' = [ret EXCEPT ![t] = cache[uri[t]].val]
    /\ mutex' = NoTask
    /\ pc' = [pc EXCEPT ![t] = AfterLookupOrClone(t, cache[uri[t]].val)]
    /\ UNCHANGED <<cache, request, child, spawned, op, uri, wc, ci_ret, wc_cmd, hvars, root_dir, child_cmd, wc_env>>

\* Mutant: the Cloning branch without its drop(cache).
LocCloning_KeepsGuard(t) ==
    /\ pc[t] = "loc_match"
    /\ cache[uri[t]].tag = "Cloning"
    /\ observed' = [observed EXCEPT ![t] = "InFlight"]
    /\ pc' = [pc EXCEPT ![t] = "loc_join"]
    /\ UNCHANGED <<cache, mutex, request, child, spawned, op, uri, ret, wc, ci_ret, wc_cmd, hvars, root_dir, child_cmd, wc_env>>

\* Lines 95-98: Occupied, Cloning(future): drop(cache), then await the clone
\* of the Shared future.
LocCloning(t) ==
    /\ pc[t] = "loc_match"
    /\ EntryKind(cache[uri[t]]) = "InFlight"
    /\ observed' = [observed EXCEPT ![t] =
          IF \E c \in Tasks : /\ uri[c] = uri[t]
                              /\ observed[c] = "Vacant"
                              /\ pc[c] = "cancelled"
          THEN "InFlightOrphaned" ELSE "InFlight"]
    /\ mutex' = NoTask
    /\ pc' = [pc EXCEPT ![t] = "loc_join"]
    /\ UNCHANGED <<cache, request, child, spawned, op, uri, ret, wc, ci_ret, wc_cmd, hvars, root_dir, child_cmd, wc_env>>

\* Mutant: the entry is inserted as Available(Ok(destination)) when the clone
\* is requested, before it has run.
LocVacant_SettlesEarly(t) ==
    /\ pc[t] = "loc_match"
    /\ EntryKind(cache[uri[t]]) = "Vacant"
    /\ observed' = [observed EXCEPT ![t] = "Vacant"]
    /\ request' = [request EXCEPT ![uri[t]] = Lazy]
    /\ cache' = [cache EXCEPT ![uri[t]] =
          Available(Ok(join(root, dest_dir_name(uri[t]))))]
    /\ mutex' = NoTask
    /\ pc' = [pc EXCEPT ![t] = "loc_request"]
    /\ UNCHANGED <<child, spawned, op, uri, ret, wc, ci_ret, wc_cmd, hvars, root_dir, child_cmd, wc_env>>

\* Mutant: the guard of line 89 is still held when the producer awaits.
LocVacant_KeepsGuard(t) ==
    /\ pc[t] = "loc_match"
    /\ EntryKind(cache[uri[t]]) = "Vacant"
    /\ observed' = [observed EXCEPT ![t] = "Vacant"]
    /\ request' = [request EXCEPT ![uri[t]] = Lazy]
    /\ cache' = [cache EXCEPT ![uri[t]] = Cloning]
    /\ pc' = [pc EXCEPT ![t] = "loc_request"]
    /\ UNCHANGED <<mutex, child, spawned, op, uri, ret, wc, ci_ret, wc_cmd, hvars, root_dir, child_cmd, wc_env>>

\* Lines 102-109: Vacant: build the lazy Shared future of clone_repo, insert
\* Cloning(request.clone()), drop(cache).
LocVacant(t) ==
    /\ pc[t] = "loc_match"
    /\ EntryKind(cache[uri[t]]) = "Vacant"
    /\ observed' = [observed EXCEPT ![t] = "Vacant"]
    /\ request' = [request EXCEPT ![uri[t]] = Lazy]
    /\ cache' = [cache EXCEPT ![uri[t]] = Cloning]
    /\ mutex' = NoTask
    /\ pc' = [pc EXCEPT ![t] = "loc_request"]
    /\ UNCHANGED <<child, spawned, op, uri, ret, wc, ci_ret, wc_cmd, hvars, root_dir, child_cmd, wc_env>>

\* ---------------------------------------------- the Shared clone future
\* A task stands at `future.await` (line 98) or `request.await` (line 111):
\* about to poll for the first time, or suspended after a Pending poll.
FirstPoll(t) == pc[t] \in {"loc_join", "loc_request"}
Suspended(t) == pc[t] \in {"loc_join_wait", "loc_request_wait"}
IsProducer(t) == pc[t] \in {"loc_request", "loc_request_wait"}

\* The wakers Shared registered are woken when the child exits (tokio wakes
\* the inner future's waker, which wakes every registered awaiter) or when
\* another awaiter's poll completed the future.
Woken(r) ==
    \/ request[r].st = "Ready"
    \/ request[r].st = "Pending" /\ child[r] \in ExitStates

\* The await of task t yields r.  Line 98: the joiner returns it.  Line 111:
\* the producer binds it to `ret` and goes on to re-acquire the lock.
Yield(t, r) ==
    /\ ret' = [ret EXCEPT ![t] = r]
    /\ pc' = [pc EXCEPT ![t] =
          IF IsProducer(t) THEN "loc_relock" ELSE AfterLookupOrClone(t, r)]

Suspend(t) ==
    pc' = [pc EXCEPT ![t] =
          IF IsProducer(t) THEN "loc_request_wait" ELSE "loc_join_wait"]

\* clone_repo lines 129-135: `git clone <remote> <dest_dir_name>` with the
\* pool root as working directory and prompting disabled.
clone_repo_command(remote) ==
    [cwd |-> root,
     env |-> {<<"GIT_TERMINAL_PROMPT", "0">>},
     args |-> <<"clone", remote, dest_dir_name(remote)>>]

\* Mutant: the clone runs under the cache lock, which the first poll takes.
PollSpawn_UnderLock(t) ==
    /\ FirstPoll(t)
    /\ request[uri[t]] = Lazy
    /\ mutex = NoTask
    /\ mutex' = t
    /\ spawned' = [spawned EXCEPT ![uri[t]] = @ + 1]
    /\ child' = [child EXCEPT ![uri[t]] = "running"]
    /\ child_cmd' = [child_cmd EXCEPT ![uri[t]] = clone_repo_command(uri[t])]
    /\ request' = [request EXCEPT ![uri[t]] = Pending]
    /\ Suspend(t)
    /\ UNCHANGED <<cache, op, uri, ret, observed, wc, ci_ret, wc_cmd, hvars, root_dir, wc_env>>

\* First poll of the Shared future by anyone: clone_repo runs to its await,
\* lines 129-136; Command::status spawns `git clone <remote> <dest>` in root.
PollSpawn(t) ==
    /\ FirstPoll(t)
    /\ request[uri[t]] = Lazy
    /\ spawned' = [spawned EXCEPT ![uri[t]] = @ + 1]
    /\ child' = [child EXCEPT ![uri[t]] = "running"]
    /\ child_cmd' = [child_cmd EXCEPT ![uri[t]] = clone_repo_command(uri[t])]
    /\ request' = [request EXCEPT ![uri[t]] = Pending]
    /\ Suspend(t)
    /\ UNCHANGED <<cache, mutex, op, uri, ret, observed, wc, ci_ret, wc_cmd, hvars, root_dir, wc_env>>

\* The same first poll when the spawn fails: `.await?` (line 136) turns the
\* io::Error into ServiceError::IoError and the future is complete.
PollSpawnFails(t) ==
    /\ FirstPoll(t)
    /\ request[uri[t]] = Lazy
    /\ spawned' = [spawned EXCEPT ![uri[t]] = @ + 1]
    /\ request' = [request EXCEPT ![uri[t]] = Ready(IoError)]
    /\ Yield(t, IoError)
    /\ UNCHANGED <<cache, mutex, child, op, uri, observed, wc, ci_ret, wc_cmd, hvars, root_dir, child_cmd, wc_env>>

\* Mutant: the future is not shared, an awaiter that finds the clone running
\* runs the computation again.
PollPending_Reruns(t) ==
    /\ pc[t] \in {"loc_join", "loc_request"}
    /\ request[uri[t]].st = "Pending"
    /\ child[uri[t]] = "running"
    /\ spawned' = [spawned EXCEPT ![uri[t]] = @ + 1]
    /\ pc' = [pc EXCEPT ![t] =
          IF pc[t] = "loc_request" THEN "loc_request_wait" ELSE "loc_join_wait"]
    /\ UNCHANGED <<cache, mutex, request, child, op, uri, ret, observed, wc, ci_ret, wc_cmd, hvars, root_dir, child_cmd, wc_env>>

\* A first poll while the child runs: Pending, the waker is registered.
PollPending(t) ==
    /\ FirstPoll(t)
    /\ request[uri[t]] = Pending
    /\ child[uri[t]] = "running"
    /\ Suspend(t)
    /\ UNCHANGED <<cache, mutex, request, child, spawned, op, uri, ret, observed, wc, ci_ret, wc_cmd, hvars, root_dir, child_cmd, wc_env>>

\* A poll after the child exited: clone_repo finishes (lines 138-141), Shared
\* stores the output and this awaiter takes a clone of it.
PollCompletes(t) ==
    /\ FirstPoll(t) \/ Suspended(t)
    /\ request[uri[t]] = Pending
    /\ child[uri[t]] \in ExitStates
    /\ request' = [request EXCEPT ![uri[t]] =
          Ready(clone_repo_result(uri[t], child[uri[t]]))]
    /\ Yield(t, clone_repo_result(uri[t], child[uri[t]]))
    /\ UNCHANGED <<cache, mutex, child, spawned, op, uri, observed, wc, ci_ret, wc_cmd, hvars, root_dir, child_cmd, wc_env>>

\* A poll of the completed Shared future: a clone of the stored output.
PollReady(t) ==
    /\ FirstPoll(t) \/ Suspended(t)
    /\ request[uri[t]].st = "Ready"
    /\ Yield(t, request[uri[t]].out)
    /\ UNCHANGED <<cache, mutex, request, child, spawned, op, uri, observed, wc, ci_ret, wc_cmd, hvars, root_dir, child_cmd, wc_env>>

\* The git child of clone_repo exits with some status.
ChildExit(r) ==
    /\ child[r] = "running"
    /\ \E s \in ExitStates : child' = [child EXCEPT ![r] = s]
    /\ UNCHANGED <<cache, mutex, request, spawned, pc, op, uri, ret, observed, wc, ci_ret, wc_cmd, hvars, root_dir, child_cmd, wc_env>>

\* Line 114: the producer re-acquires the lock.
LocReacquire(t) ==
    /\ pc[t] = "loc_relock"
    /\ mutex = NoTask
    /\ mutex' = t
    /\ pc' = [pc EXCEPT ![t] = "loc_insert"]
    /\ UNCHANGED <<cache, request, child, spawned, op, uri, ret, observed, wc, ci_ret, wc_cmd, hvars, root_dir, child_cmd, wc_env>>

\* Mutant: the producer returns its value without replacing the entry.
LocInsert_NoSettle(t) ==
    /\ pc[t] = "loc_insert"
    /\ mutex' = NoTask
    /\ pc' = [pc EXCEPT ![t] = AfterLookupOrClone(t, ret[t])]
    /\ UNCHANGED <<cache, request, child, spawned, op, uri, ret, observed, wc, ci_ret, wc_cmd, hvars, root_dir, child_cmd, wc_env>>

\* Mutant: a failed clone is evicted, the entry is removed instead of being
\* settled with the error.
LocInsert_EvictsErr(t) ==
    /\ pc[t] = "loc_insert"
    /\ cache' = [cache EXCEPT ![uri[t]] =
          IF ret[t].tag = "Err" THEN Vacant ELSE Available(ret[t])]
    /\ mutex' = NoTask
    /\ pc' = [pc EXCEPT ![t] = AfterLookupOrClone(t, ret[t])]
    /\ UNCHANGED <<request, child, spawned, op, uri, ret, observed, wc, ci_ret, wc_cmd, hvars, root_dir, child_cmd, wc_env>>

\* Mutant: the entry is settled with the destination path whatever the
\* clone yielded (the Available(PathBuf) of the earlier cache).
LocInsert_OkAlways(t) ==
    /\ pc[t] = "loc_insert"
    /\ cache' = [cache EXCEPT ![uri[t]] =
          Available(Ok(join(root, dest_dir_name(uri[t]))))]
    /\ mutex' = NoTask
    /\ pc' = [pc EXCEPT ![t] = "done"]
    /\ UNCHANGED <<request, child, spawned, op, uri, ret, observed, wc, ci_ret, wc_cmd, hvars, root_dir, child_cmd, wc_env>>

\* Lines 115-117: replace the entry by Available(ret.clone()), return ret.
LocInsert(t) ==
    /\ pc[t] = "loc_insert"
    /\ cache' = [cache EXCEPT ![uri[t]] = Available(ret[t])]
    /\ mutex' = NoTask
    /\ pc' = [pc EXCEPT ![t] = AfterLookupOrClone(t, ret[t])]
    /\ UNCHANGED <<request, child, spawned, op, uri, ret, observed, wc, ci_ret, wc_cmd, hvars, root_dir, child_cmd, wc_env>>

\* --------------------------------------------------------- Pool::lookup
\* Mutant: only a successful clone is reported, a settled error reads as None.
lookup_OkOnly(c, u) ==
    IF c[u].tag = "Available" /\ c[u].val.tag = "Ok" THEN Some(c[u].val) ELSE None

\* Mutant: an entry still Cloning is reported with the path its clone is
\* going to have.
lookup_Optimistic(c, u) ==
    IF c[u].tag = "Available" THEN Some(c[u].val)
    ELSE IF c[u].tag = "Cloning" THEN Some(Ok(join(root, dest_dir_name(u))))
    ELSE None

\* Lines 65-71.
lookup(c, u) ==
    IF c[u].tag = "Available" THEN Some(c[u].val) ELSE None

\* Line 64.
LkAcquire(t) ==
    /\ pc[t] = "lk_lock"
    /\ mutex = NoTask
    /\ mutex' = t
    /\ pc' = [pc EXCEPT ![t] = "lk_match"]
    /\ UNCHANGED <<cache, request, child, spawned, op, uri, ret, observed, wc, ci_ret, wc_cmd, hvars, root_dir, child_cmd, wc_env>>

\* Mutant: the match goes through the entry API and leaves a placeholder
\* for a key it did not find.
LkMatch_Inserts(t) ==
    /\ pc[t] = "lk_match"
    /\ observed' = [observed EXCEPT ![t] = EntryKind(cache[uri[t]])]
    /\ ret' = [ret EXCEPT ![t] = lookup(cache, uri[t])]
    /\ cache' = [cache EXCEPT ![uri[t]] = IF @ = Vacant THEN Cloning ELSE @]
    /\ mutex' = NoTask
    /\ pc' = [pc EXCEPT ![t] = "done"]
    /\ UNCHANGED <<request, child, spawned, op, uri, wc, ci_ret, wc_cmd, hvars, root_dir, child_cmd, wc_env>>

\* Lines 65-72: the match, and the guard dropped on return.
LkMatch(t) ==
    /\ pc[t] = "lk_match"
    /\ observed' = [observed EXCEPT ![t] = EntryKind(cache[uri[t]])]
    /\ ret' = [ret EXCEPT ![t] = lookup(cache, uri[t])]
    /\ mutex' = NoTask
    /\ pc' = [pc EXCEPT ![t] = "done"]
    /\ UNCHANGED <<cache, request, child, spawned, op, uri, wc, ci_ret, wc_cmd, hvars, root_dir, child_cmd, wc_env>>

\* ------------------------------------------------------- Pool::clone_in
\* Mutant: the working-copy command inherits the environment as it is.
clone_in_env_Inherited == {}

\* Line 43: the environment set for the working-copy command.
clone_in_env == {<<"GIT_TERMINAL_PROMPT", "0">>}

\* Lines 44-52: the arguments of the working-copy command, `clone <remote>
\* --reference <path> --dissociate` (the optional directory of lines 45-47
\* and the working directory of lines 54-56 are the caller's and left out).
clone_in_args(remote, path) ==
    <<"clone", remote, "--reference", path, "--dissociate">>

\* Mutant: the working copy is shared too, a call that finds a working-copy
\* command for its remote already spawned by another call returns Ok without
\* spawning one.
CiCommand_SharesCopy(t) ==
    /\ pc[t] = "ci_command"
    /\ IF \E u \in Tasks \ {t} : uri[u] = uri[t] /\ wc[u] # "none"
       THEN /\ ci_ret' = [ci_ret EXCEPT ![t] = OkUnit]
            /\ pc' = [pc EXCEPT ![t] = "done"]
            /\ UNCHANGED <<wc, wc_cmd, wc_env>>
       ELSE /\ wc_cmd' = [wc_cmd EXCEPT ![t] = clone_in_args(uri[t], ret[t].path)]
            /\ wc_env' = [wc_env EXCEPT ![t] = clone_in_env]
            /\ wc' = [wc EXCEPT ![t] = "running"]
            /\ pc' = [pc EXCEPT ![t] = "ci_output"]
            /\ UNCHANGED ci_ret
    /\ UNCHANGED <<cache, mutex, request, child, spawned, op, uri, ret, observed, hvars, root_dir, child_cmd>>

\* Lines 42-58 up to the await: `git clone <remote> [directory] --reference
\* <path> --dissociate` is spawned by Command::output.
CiCommand(t) ==
    /\ pc[t] = "ci_command"
    /\ wc_cmd' = [wc_cmd EXCEPT ![t] = clone_in_args(uri[t], ret[t].path)]
    /\ wc_env' = [wc_env EXCEPT ![t] = clone_in_env]
    /\ wc' = [wc EXCEPT ![t] = "running"]
    /\ pc' = [pc EXCEPT ![t] = "ci_output"]
    /\ UNCHANGED <<cache, mutex, request, child, spawned, op, uri, ret, observed, ci_ret, hvars, root_dir, child_cmd>>

\* Line 58 when the spawn fails: map_err(|e| e.into()).
CiCommandFails(t) ==
    /\ pc[t] = "ci_command"
    /\ ci_ret' = [ci_ret EXCEPT ![t] = IoError]
    /\ pc' = [pc EXCEPT ![t] = "done"]
    /\ UNCHANGED <<cache, mutex, request, child, spawned, op, uri, ret, observed, wc, wc_cmd, hvars, root_dir, child_cmd, wc_env>>

\* The working-copy child exits with some status.
WcExit(t) ==
    /\ wc[t] = "running"
    /\ \E s \in ExitStates : wc' = [wc EXCEPT ![t] = s]
    /\ UNCHANGED <<cache, mutex, request, child, spawned, pc, op, uri, ret, observed, ci_ret, wc_cmd, hvars, root_dir, child_cmd, wc_env>>

\* Line 58 once the output is there: `.map(|_| ())` drops the Output, exit
\* status included.
CiOutput(t) ==
    /\ pc[t] = "ci_output"
    /\ wc[t] \in ExitStates
    /\ ci_ret' = [ci_ret EXCEPT ![t] = OkUnit]
    /\ pc' = [pc EXCEPT ![t] = "done"]
    /\ UNCHANGED <<cache, mutex, request, child, spawned, op, uri, ret, observed, wc, wc_cmd, hvars, root_dir, child_cmd, wc_env>>

\* ------------------------------------------------------------ PoolHelper
\* The caller's process changes CONCURRENT_GIT_POOL (pool_helper.rs line 12
\* reads it from the environment, which is mutable process state).
SetEnv ==
    /\ env_var' = IF env_var = "set" THEN "unset" ELSE "set"
    /\ UNCHANGED <<cache, mutex, request, child, spawned, pc, op, uri, ret, observed, wc, ci_ret, wc_cmd, root_dir, child_cmd, wc_env>>
    /\ UNCHANGED <<inner, built_env, call, ph_ret, sent>>

\* The caller's process sets CONCURRENT_GIT_POOL to a value that is not
\* valid Unicode (on Unix the value of a variable is any byte string).
SetEnvNotUnicode ==
    /\ env_var # "set_not_unicode"
    /\ env_var' = "set_not_unicode"
    /\ UNCHANGED <<cache, mutex, request, child, spawned, pc, op, uri, ret, observed, wc, ci_ret, wc_cmd, root_dir, child_cmd, wc_env>>
    /\ UNCHANGED <<inner, built_env, call, ph_ret, sent>>

\* pool_helper.rs line 12, std::env::var: Ok(value) when the variable is set
\* to valid Unicode, Err(NotPresent) when it is unset and Err(NotUnicode)
\* when it is set to anything else.
env_var_read(env) == IF env = "set" THEN "Ok" ELSE "Err"

\* pool_helper.rs lines 11-20, PoolHelper::connect_or_local: when the
\* variable reads Ok, Client::connect (client.rs lines 16-21) yields
\* Some(client) or its error is returned through `?` and no PoolHelper
\* exists; when it reads Err, inner is None.
ConnectOrLocal ==
    /\ inner = "unbuilt"
    /\ built_env' = env_var
    /\ IF env_var_read(env_var) = "Ok"
       THEN \E res \in {"Some", "ConnectFailed"} : inner' = res
       ELSE inner' = "None"
    /\ UNCHANGED <<cache, mutex, request, child, spawned, pc, op, uri, ret, observed, wc, ci_ret, wc_cmd, root_dir, child_cmd, wc_env>>
    /\ UNCHANGED <<env_var, call, ph_ret, sent>>

\* Mutant: the branch is chosen by reading the variable again at each call.
branch_of_ReadsEnv(field, env) == IF env = "set" THEN "rpc" ELSE "local"

\* pool_helper.rs line 28: the branch clone_in takes, given self.inner and
\* the environment of the moment; the environment is not looked at.
branch_of(field, env) == IF field = "Some" THEN "rpc" ELSE "local"

\* pool_helper.rs lines 22-34, PoolHelper::clone_in on the constructed
\* helper.  Some(inner): Client::clone_in (client.rs lines 37-49) sends the
\* request, Server::clone_in (server.rs lines 23-31) calls Pool::clone_in,
\* whose line 40 starts with lookup_or_clone.  None: the local command is
\* built next.
PhCloneIn(t) ==
    /\ pc[t] = "idle"
    /\ inner \in {"Some", "None"}
    /\ \E r \in Remotes :
          /\ call' = [call EXCEPT ![t] = branch_of(inner, env_var)]
          /\ uri' = [uri EXCEPT ![t] = r]
          /\ IF branch_of(inner, env_var) = "rpc"
             THEN /\ op' = [op EXCEPT ![t] = "clone_in"]
                  /\ pc' = [pc EXCEPT ![t] = "loc_lock"]
             ELSE /\ op' = [op EXCEPT ![t] = "ph_local"]
                  /\ pc' = [pc EXCEPT ![t] = "ph_command"]
    /\ sent' = [sent EXCEPT ![t] = IF branch_of(inner, env_var) = "rpc" THEN 1 ELSE 0]
    /\ UNCHANGED <<cache, mutex, request, child, spawned, ret, observed, wc, ci_ret, wc_cmd, root_dir, child_cmd, wc_env>>
    /\ UNCHANGED <<env_var, inner, built_env, ph_ret>>

\* pool_helper.rs lines 37-38: the environment set for the local command.
pool_helper_env ==
    {<<"GIT_TERMINAL_PROMPT", "0">>, <<"GIT_SSH_COMMAND", "ssh -o BatchMode=yes">>}

\* Mutant: the local branch deduplicates, a call that finds a command for
\* its remote already spawned by another call reports success without
\* spawning one.
PhCommand_Dedups(t) ==
    /\ pc[t] = "ph_command"
    /\ IF \E u \in Tasks \ {t} : uri[u] = uri[t] /\ wc[u] # "none"
       THEN /\ ph_ret' = [ph_ret EXCEPT ![t] = RpcOk(OkUnit)]
            /\ pc' = [pc EXCEPT ![t] = "done"]
            /\ UNCHANGED <<wc, wc_cmd, wc_env>>
       ELSE /\ wc_cmd' = [wc_cmd EXCEPT ![t] = <<"clone", uri[t]>>]
            /\ wc_env' = [wc_env EXCEPT ![t] = pool_helper_env]
            /\ wc' = [wc EXCEPT ![t] = "running"]
            /\ pc' = [pc EXCEPT ![t] = "ph_output"]
            /\ UNCHANGED ph_ret
    /\ UNCHANGED <<cache, mutex, request, child, spawned, op, uri, ret, observed, ci_ret, root_dir, child_cmd>>
    /\ UNCHANGED <<env_var, inner, built_env, call, sent>>

\* pool_helper.rs lines 36-47 up to the await: `git clone <uri> [directory]`
\* is spawned by Command::output.
PhCommand(t) ==
    /\ pc[t] = "ph_command"
    /\ wc_cmd' = [wc_cmd EXCEPT ![t] = <<"clone", uri[t]>>]
    /\ wc_env' = [wc_env EXCEPT ![t] = pool_helper_env]
    /\ wc' = [wc EXCEPT ![t] = "running"]
    /\ pc' = [pc EXCEPT ![t] = "ph_output"]
    /\ UNCHANGED <<cache, mutex, request, child, spawned, op, uri, ret, observed, ci_ret, hvars, root_dir, child_cmd>>

\* Mutant: a launch failure of the local command is returned as the outer
\* error.
PhCommandFails_AsTransport(t) ==
    /\ pc[t] = "ph_command"
    /\ ph_ret' = [ph_ret EXCEPT ![t] = RpcError]
    /\ pc' = [pc EXCEPT ![t] = "done"]
    /\ UNCHANGED <<cache, mutex, request, child, spawned, op, uri, ret, observed, wc, ci_ret, wc_cmd, root_dir, child_cmd, wc_env>>
    /\ UNCHANGED <<env_var, inner, built_env, call, sent>>

\* pool_helper.rs lines 47-52: the spawn fails, Ok(Err(IoError(..))).
PhCommandFails(t) ==
    /\ pc[t] = "ph_command"
    /\ ph_ret' = [ph_ret EXCEPT ![t] =
          RpcOk(Err("IoError", "failed to call status() on command"))]
    /\ pc' = [pc EXCEPT ![t] = "done"]
    /\ UNCHANGED <<cache, mutex, request, child, spawned, op, uri, ret, observed, wc, ci_ret, wc_cmd, root_dir, child_cmd, wc_env>>
    /\ UNCHANGED <<env_var, inner, built_env, call, sent>>

\* pool_helper.rs lines 54-61: the output is there; a status that is not
\* success gives Ok(Err(CloneFailed(..))), success gives Ok(Ok(())).
PhOutput(t) ==
    /\ pc[t] = "ph_output"
    /\ wc[t] \in ExitStates
    /\ ph_ret' = [ph_ret EXCEPT ![t] =
          IF wc[t] = "exit0" THEN RpcOk(OkUnit)
          ELSE RpcOk(Err("CloneFailed", "exit code")) ]
    /\ pc' = [pc EXCEPT ![t] = "done"]
    /\ UNCHANGED <<cache, mutex, request, child, spawned, op, uri, ret, observed, wc, ci_ret, wc_cmd, root_dir, child_cmd, wc_env>>
    /\ UNCHANGED <<env_var, inner, built_env, call, sent>>

\* yb/src/util/git/pool_helper.rs lines 22-36, the PoolHelper::clone_in of
\* yb's own copy of the helper, on a helper whose inner is None: the local
\* command is built next.
YbPhCloneIn(t) ==
    /\ pc[t] = "idle"
    /\ inner = "None"
    /\ \E r \in Remotes : uri' = [uri EXCEPT ![t] = r]
    /\ call' = [call EXCEPT ![t] = "local"]
    /\ op' = [op EXCEPT ![t] = "yb_local"]
    /\ pc' = [pc EXCEPT ![t] = "yb_command"]
    /\ UNCHANGED <<cache, mutex, request, child, spawned, ret, observed, wc, ci_ret, wc_cmd, root_dir, child_cmd, wc_env>>
    /\ UNCHANGED <<env_var, inner, built_env, ph_ret, sent>>

\* yb/src/util/git/pool_helper.rs line 37: the environment set there.
yb_pool_helper_env == {<<"GIT_TERMINAL_PROMPT", "0">>}

\* yb/src/util/git/pool_helper.rs lines 36-45 up to the await: `git clone
\* <uri> [directory]` is spawned by Command::output.
YbPhCommand(t) ==
    /\ pc[t] = "yb_command"
    /\ wc_cmd' = [wc_cmd EXCEPT ![t] = <<"clone", uri[t]>>]
    /\ wc_env' = [wc_env EXCEPT ![t] = yb_pool_helper_env]
    /\ wc' = [wc EXCEPT ![t] = "running"]
    /\ pc' = [pc EXCEPT ![t] = "yb_output"]
    /\ UNCHANGED <<cache, mutex, request, child, spawned, op, uri, ret, observed, ci_ret, hvars, root_dir, child_cmd>>

\* yb/src/util/git/pool_helper.rs lines 47-49: the spawn fails,
\* Ok(Err(CloneFailed(..))).
YbPhCommandFails(t) ==
    /\ pc[t] = "yb_command"
    /\ ph_ret' = [ph_ret EXCEPT ![t] = RpcOk(Err("CloneFailed", "io error"))]
    /\ pc' = [pc EXCEPT ![t] = "done"]
    /\ UNCHANGED <<cache, mutex, request, child, spawned, op, uri, ret, observed, wc, ci_ret, wc_cmd, root_dir, child_cmd, wc_env>>
    /\ UNCHANGED <<env_var, inner, built_env, call, sent>>

\* yb/src/util/git/pool_helper.rs line 50: the output is there and
\* Ok(Ok(())) is returned, the exit status not being looked at.
YbPhOutput(t) ==
    /\ pc[t] = "yb_output"
    /\ wc[t] \in ExitStates
    /\ ph_ret' = [ph_ret EXCEPT ![t] = RpcOk(OkUnit)]
    /\ pc' = [pc EXCEPT ![t] = "done"]
    /\ UNCHANGED <<cache, mutex, request, child, spawned, op, uri, ret, observed, wc, ci_ret, wc_cmd, root_dir, child_cmd, wc_env>>
    /\ UNCHANGED <<env_var, inner, built_env, call, sent>>

\* yb/src/commands/sync/actions/basic.rs lines 168-174, the caller
\* CloneRepoSyncAction::apply: `.await.unwrap()` on the value of clone_in
\* yields the inner result or panics on an outer Err.
unwrap(v) == IF v.tag = "RpcOk" THEN v.val ELSE [tag |-> "panic"]

\* server.rs lines 15-31: the value of a handler is the value of the Pool
\* method it delegates to.
handler_value(t) == IF op[t] = "clone_in" THEN ci_ret[t] ELSE ret[t]

\* pool_helper.rs lines 31-33, client.rs lines 23-49: the response of the
\* Server's handler arrives and is returned as it is, inside Ok.
RpcReply(t) ==
    /\ call[t] = "rpc"
    /\ pc[t] = "done"
    /\ ph_ret[t] = NoVal
    /\ ph_ret' = [ph_ret EXCEPT ![t] = RpcOk(handler_value(t))]
    /\ UNCHANGED <<cache, mutex, request, child, spawned, pc, op, uri, ret, observed, wc, ci_ret, wc_cmd, root_dir, child_cmd, wc_env>>
    /\ UNCHANGED <<env_var, inner, built_env, call, sent>>

\* Mutant: on a transport error the helper falls back to the local command
\* instead of returning the error.
RpcDeadline_FallsBack(t) ==
    /\ call[t] = "rpc"
    /\ pc[t] = "panicked"
    /\ ph_ret[t] = NoVal
    /\ call' = [call EXCEPT ![t] = "local"]
    /\ op' = [op EXCEPT ![t] = "ph_local"]
    /\ pc' = [pc EXCEPT ![t] = "ph_command"]
    /\ UNCHANGED <<cache, mutex, request, child, spawned, uri, ret, observed, wc, ci_ret, wc_cmd, root_dir, child_cmd, wc_env>>
    /\ UNCHANGED <<env_var, inner, built_env, ph_ret, sent>>

\* client.rs lines 51-55: the handler aborted, no response comes, and the
\* deadline of the request (five minutes after it was made) passes:
\* Err(RpcError).
RpcDeadline(t) ==
    /\ call[t] = "rpc"
    /\ pc[t] = "panicked"
    /\ ph_ret[t] = NoVal
    /\ ph_ret' = [ph_ret EXCEPT ![t] = RpcError]
    /\ UNCHANGED <<cache, mutex, request, child, spawned, pc, op, uri, ret, observed, wc, ci_ret, wc_cmd, root_dir, child_cmd, wc_env>>
    /\ UNCHANGED <<env_var, inner, built_env, call, sent>>

\* ---------------------------------------------------------- cancellation
\* A call's future can be dropped only while it is not being polled: before
\* its first poll, or suspended at an await that returned Pending (the lock
\* of lines 64, 89 and 114 when it is held, the Shared future, the output of
\* the working-copy child).
Cancellable(t) ==
    \/ pc[t] \in {"loc_lock", "lk_lock", "ci_output"}
    \/ Suspended(t)
    \/ pc[t] = "loc_relock" /\ mutex # NoTask

\* Mutant: the child is killed when an awaiter of its future is dropped
\* (kill_on_drop on a future owned by the awaiter).
Cancel_KillsChild(t) ==
    /\ \/ pc[t] \in {"loc_lock", "lk_lock", "ci_output", "loc_join_wait", "loc_request_wait"}
       \/ pc[t] = "loc_relock" /\ mutex # NoTask
    /\ pc' = [pc EXCEPT ![t] = "cancelled"]
    /\ child' = IF pc[t] \in {"loc_join_wait", "loc_request_wait"} /\ child[uri[t]] = "running"
                THEN [child EXCEPT ![uri[t]] = "killed"]
                ELSE child
    /\ UNCHANGED <<cache, mutex, request, spawned, op, uri, ret, observed, wc, ci_ret, wc_cmd, hvars, root_dir, child_cmd, wc_env>>

\* Dropping the call's future drops its locals (its clone of the Shared
\* future among them); neither the map, nor the future held by the entry,
\* nor a child (kill_on_drop is off) is touched.
Cancel(t) ==
    /\ Cancellable(t)
    /\ pc' = [pc EXCEPT ![t] = "cancelled"]
    /\ UNCHANGED <<cache, mutex, request, child, spawned, op, uri, ret, observed, wc, ci_ret, wc_cmd, hvars, root_dir, child_cmd, wc_env>>

\* ------------------------------------------------------- end of the Pool
\* The Server is cancelled and the last Arc<Pool> goes: every handler's
\* future is dropped and no later request is served; the fields of Pool are
\* dropped (lines 15-18): the map with the Shared futures it holds, and the
\* TempDir, whose Drop removes the directory.  Dropping the future of
\* Command::status / Command::output (lines 129-136, 58) drops the tokio
\* Child, which is not killed (kill_on_drop is not set).
DropPool ==
    /\ root_dir = "exists"
    /\ root_dir' = "removed"
    /\ cache' = [r \in Remotes |-> Vacant]
    /\ request' = [r \in Remotes |-> NoRequest]
    /\ mutex' = NoTask
    /\ pc' = [t \in Tasks |-> IF pc[t] \in {"done", "panicked"} THEN pc[t] ELSE "cancelled"]
    /\ UNCHANGED <<child, spawned, op, uri, ret, observed, wc, ci_ret, wc_cmd, hvars, child_cmd, wc_env>>

\* ------------------------------------------------- requests over RPC
\* client.rs lines 23-49 with server.rs lines 15-31: a client calls one of
\* the Service methods in `methods`; the request reaches the Server, whose
\* handler calls the Pool method of the same name on the one Pool of
\* self.cache.
RpcCall(t, methods) ==
    /\ pc[t] = "idle"
    /\ \E o \in methods : \E r \in Remotes :
          /\ op' = [op EXCEPT ![t] = o]
          /\ uri' = [uri EXCEPT ![t] = r]
          /\ pc' = [pc EXCEPT ![t] = IF o = "lookup" THEN "lk_lock" ELSE "loc_lock"]
    /\ call' = [call EXCEPT ![t] = "rpc"]
    /\ sent' = [sent EXCEPT ![t] = 1]
    /\ UNCHANGED <<cache, mutex, request, child, spawned, ret, observed, wc, ci_ret, wc_cmd, root_dir, child_cmd, wc_env>>
    /\ UNCHANGED <<env_var, inner, built_env, ph_ret>>

\* client.rs lines 51-55: the deadline of a request passes while its handler
\* is suspended.  The client's call ends with Err(RpcError); the transport
\* either drops the handler's future at its await or lets it run on.
RpcExpire(t) ==
    /\ call[t] = "rpc"
    /\ ph_ret[t] = NoVal
    /\ Cancellable(t)
    /\ ph_ret' = [ph_ret EXCEPT ![t] = RpcError]
    /\ \E dropped \in BOOLEAN :
          pc' = IF dropped THEN [pc EXCEPT ![t] = "cancelled"] ELSE pc
    /\ UNCHANGED <<cache, mutex, request, child, spawned, op, uri, ret, observed, wc, ci_ret, wc_cmd, root_dir, child_cmd, wc_env>>
    /\ UNCHANGED <<env_var, inner, built_env, call, sent>>

\* ------------------------------------------------------- specifications
\* One step of a call of lookup_or_clone.
LocStep(t) ==
    \/ LocAcquire(t)
    \/ LocAvailable(t)
    \/ LocCloning(t)
    \/ LocVacant(t)
    \/ PollSpawn(t)
    \/ PollSpawnFails(t)
    \/ PollPending(t)
    \/ PollCompletes(t)
    \/ PollReady(t)
    \/ LocReacquire(t)
    \/ LocInsert(t)

\* One step of a call of lookup or lookup_or_clone.
PoolStep(t) ==
    \/ LocStep(t)
    \/ LkAcquire(t)
    \/ LkMatch(t)

\* One step of the part of clone_in that follows its lookup_or_clone.
CloneInStep(t) ==
    \/ CiCommand(t)
    \/ CiCommandFails(t)
    \/ CiOutput(t)

\* What the runtime and the operating system do on their own: a task that
\* can run is polled, a child exits.
Progress ==
    \/ \E t \in Tasks : PoolStep(t)
    \/ \E r \in Remotes : ChildExit(r)

ProgressCloneIn ==
    \/ Progress
    \/ \E t \in Tasks : CloneInStep(t) \/ WcExit(t)

\* Callers of lookup and lookup_or_clone on one Pool.
Next ==
    \/ Progress
    \/ \E t \in Tasks : Call(t) \/ Cancel(t)

Spec == Init /\ [][Next]_vars

\* The same with the scheduler's and the children's progress assumed: every
\* runnable task is eventually polled and every child eventually exits.
\* Calls and cancellations stay the callers' choice.
FairSpec == Spec /\ WF_vars(Progress)

\* Only the scheduler's progress assumed: every runnable task is eventually
\* polled, while a child may run for ever.
SchedFairSpec == Spec /\ WF_vars(\E t \in Tasks : PoolStep(t))

\* Callers of all three Pool methods.
NextCloneIn ==
    \/ ProgressCloneIn
    \/ \E t \in Tasks : Call(t) \/ CallCloneIn(t) \/ Cancel(t)

SpecCloneIn == Init /\ [][NextCloneIn]_vars

FairSpecCloneIn == SpecCloneIn /\ WF_vars(ProgressCloneIn)

\* One step of the local branch of PoolHelper::clone_in.
PhStep(t) ==
    \/ PhCommand(t)
    \/ PhCommandFails(t)
    \/ PhOutput(t)

\* A process that clones through one PoolHelper and awaits its calls; with
\* inner = Some the calls are served by the Server's Pool.
NextHelper ==
    \/ SetEnv
    \/ ConnectOrLocal
    \/ \E t \in Tasks : PhCloneIn(t) \/ PhStep(t) \/ RpcReply(t) \/ RpcDeadline(t)
    \/ \E t \in Tasks : LocStep(t) \/ CloneInStep(t) \/ WcExit(t)
    \/ \E r \in Remotes : ChildExit(r)

SpecHelper == Init /\ [][NextHelper]_vars

\* Clients of one Server calling lookup and lookup_or_clone: every call is
\* a request with a deadline, served by a handler on the Server's Pool.
NextRpc ==
    \/ Progress
    \/ \E t \in Tasks : RpcCall(t, {"lookup", "lookup_or_clone"})
    \/ \E t \in Tasks : RpcReply(t) \/ RpcExpire(t)

SpecRpc == Init /\ [][NextRpc]_vars

\* Clients of one Server calling lookup_or_clone and clone_in, whose
\* requests are answered unless the handler aborts.
NextServer ==
    \/ \E t \in Tasks : RpcCall(t, {"lookup_or_clone", "clone_in"})
    \/ \E t \in Tasks : RpcReply(t) \/ RpcDeadline(t)
    \/ \E t \in Tasks : LocStep(t) \/ CloneInStep(t) \/ WcExit(t)
    \/ \E r \in Remotes : ChildExit(r)

SpecServer == Init /\ [][NextServer]_vars

\* One step of the local branch of yb's PoolHelper::clone_in.
YbPhStep(t) ==
    \/ YbPhCommand(t)
    \/ YbPhCommandFails(t)
    \/ YbPhOutput(t)

\* A process with CONCURRENT_GIT_POOL unset that builds a PoolHelper and
\* clones through it, by either copy of the helper.
NextLocal ==
    \/ ConnectOrLocal
    \/ \E t \in Tasks : PhCloneIn(t) \/ PhStep(t)
    \/ \E t \in Tasks : YbPhCloneIn(t) \/ YbPhStep(t)
    \/ \E t \in Tasks : WcExit(t)

SpecLocal == Init /\ [][NextLocal]_vars

\* Callers of Pool::clone_in only, each call awaited to its end.
NextCloneInOnly ==
    \/ \E t \in Tasks : CallCloneIn(t)
    \/ \E t \in Tasks : LocStep(t) \/ CloneInStep(t) \/ WcExit(t)
    \/ \E r \in Remotes : ChildExit(r)

SpecCloneInOnly == Init /\ [][NextCloneInOnly]_vars

\* The same process when the variable may hold any byte string.
NextConnect ==
    \/ NextHelper
    \/ SetEnvNotUnicode

SpecConnect == Init /\ [][NextConnect]_vars

\* Callers of Pool::clone_in only, whose calls may be dropped.
NextCloneInCancel ==
    \/ NextCloneInOnly
    \/ \E t \in Tasks : Cancel(t)

SpecCloneInCancel == Init /\ [][NextCloneInCancel]_vars

\* Callers of all three Pool methods on a Pool that is dropped at some point.
NextShutdown ==
    \/ NextCloneIn
    \/ DropPool

SpecShutdown == Init /\ [][NextShutdown]_vars

\* ------------------------------------------------------------ properties
\* The task made a lookup_or_clone call, directly or as line 40 of clone_in.
LocCaller(t) == op[t] \in {"lookup_or_clone", "clone_in"}

\* The lookup_or_clone call of task t has returned (ret[t] is its value).
LocReturned(t) ==
    /\ LocCaller(t)
    /\ \/ pc[t] \in {"done", "panicked", "ci_command", "ci_output"}
       \/ pc[t] = "cancelled" /\ wc[t] # "none"

\* The task whose lookup_or_clone(r) found the entry vacant.
IsProducerOf(t, r) == LocCaller(t) /\ uri[t] = r /\ observed[t] = "Vacant"

\* A lookup_or_clone(r) call that found the entry in flight.
IsJoinerOf(t, r) ==
    LocCaller(t) /\ uri[t] = r /\ observed[t] \in {"InFlight", "InFlightOrphaned"}

\* What the one git child of r amounts to as a lookup_or_clone value.
IsOutcomeOf(v, r) ==
    /\ child[r] = "none" => v = [tag |-> "Err", kind |-> "IoError", detail |-> "spawn failed"]
    /\ child[r] = "exit0" => v = [tag |-> "Ok", path |-> <<"pool_root", <<"sha256", r>>>>]
    /\ child[r] = "exit128" => v.tag = "Err" /\ v.kind = "CloneFailed"
    /\ child[r] \in {"none", "exit0", "exit128"}

\* C1: single-flight. For every remote the clone command is run at most
\* once, at most one lookup_or_clone call finds the entry vacant, and as soon
\* as any call has matched on the entry exactly one has found it vacant (all
\* the others found it in flight or settled).
C1_SingleFlight ==
    \A r \in Remotes :
        /\ spawned[r] <= 1
        /\ Cardinality({t \in Tasks : IsProducerOf(t, r)}) <= 1
        /\ \A t \in Tasks :
              (LocCaller(t) /\ uri[t] = r /\ observed[t] # "none")
                  => /\ \E c \in Tasks : IsProducerOf(c, r)
                     /\ observed[t] \in {"Vacant", "InFlight", "InFlightOrphaned", "Settled"}

\* Two concurrent calls on one remote both returned, one having found the
\* entry vacant and the other in flight, with one clone command run.
C1_Witness ==
    \E r \in Remotes : \E a, b \in Tasks :
        /\ IsProducerOf(a, r) /\ IsJoinerOf(b, r)
        /\ LocReturned(a) /\ LocReturned(b)
        /\ spawned[r] = 1

\* C2: consistent outcome. Any two lookup_or_clone calls on the same remote
\* that have returned have returned equal values.
C2_ConsistentOutcome ==
    \A a, b \in Tasks :
        (LocReturned(a) /\ LocReturned(b) /\ uri[a] = uri[b]) => ret[a] = ret[b]

\* The producer and a later caller that found the entry settled both
\* returned the same CloneFailed error.
C2_Witness ==
    \E a, b \in Tasks :
        /\ a # b /\ uri[a] = uri[b]
        /\ LocReturned(a) /\ LocReturned(b)
        /\ observed[a] = "Vacant" /\ observed[b] = "Settled"
        /\ ret[a].tag = "Err" /\ ret[a].kind = "CloneFailed"

\* C3: ordering. Whenever some lookup_or_clone(r) call has returned, the
\* entry of r is Settled (so a lookup(r) right after yields Some).
C3_SettledBeforeReturn ==
    \A t \in Tasks : LocReturned(t) => lookup(cache, uri[t]) # None

\* C4: failure stickiness. Once a lookup_or_clone(r) has returned Err(e),
\* every lookup_or_clone(r) that has returned has returned that same Err(e),
\* and from then on no step runs the clone command for r again.
C4_FailureStickiness ==
    /\ [](\A a, b \in Tasks :
            (LocReturned(a) /\ LocReturned(b) /\ uri[a] = uri[b] /\ ret[a].tag = "Err")
                => ret[b] = ret[a])
    /\ [][\A r \in Remotes :
            (\E t \in Tasks : LocReturned(t) /\ uri[t] = r /\ ret[t].tag = "Err")
                => spawned'[r] = spawned[r] /\ child'[r] = child[r]]_vars

\* A call returned an error and a call that started matching afterwards (it
\* found the entry settled) returned the same error, one command run.
C4_Witness ==
    \E a, b \in Tasks :
        /\ a # b /\ uri[a] = uri[b]
        /\ LocReturned(a) /\ ret[a].tag = "Err"
        /\ LocReturned(b) /\ observed[b] = "Settled" /\ ret[b] = ret[a]
        /\ spawned[uri[a]] = 1

\* A lookup_or_clone(r) call that found the entry in flight and was
\* cancelled at its await of the shared future (line 98).
CancelledJoiner(t, r) == IsJoinerOf(t, r) /\ pc[t] = "cancelled" /\ wc[t] = "none"

\* The call that created r's entry was cancelled.
ProducerCancelled(r) == \E c \in Tasks : IsProducerOf(c, r) /\ pc[c] = "cancelled"

\* Task u, at an await inside lookup_or_clone(r), is not stuck: it can be
\* polled to a new position, or what it waits for is still to come (the
\* child of r still runs, the mutex it wants is held by a task inside its
\* synchronous match).
CanProceed(u, r) ==
    \/ ENABLED PoolStep(u)
    \/ child[r] = "running"
    \/ pc[u] = "loc_relock" /\ mutex # NoTask

C6_ProducerCancellation ==
    \A t \in Tasks :
        (LocCaller(t) /\ observed[t] = "InFlightOrphaned" /\ LocReturned(t))
            => /\ IsOutcomeOf(ret[t], uri[t])
               /\ spawned[uri[t]] = 1

\* Scenario S5: A was cancelled while the child ran, B called afterwards and
\* returned Ok, one command run.
C6_Witness ==
    \E t \in Tasks :
        /\ op[t] = "lookup_or_clone" /\ observed[t] = "InFlightOrphaned"
        /\ pc[t] = "done" /\ ret[t].tag = "Ok"
        /\ child[uri[t]] = "exit0" /\ spawned[uri[t]] = 1

\* No call is under way: every task is idle, returned or cancelled.
Quiet == \A t \in Tasks : pc[t] \in {"idle", "done", "cancelled"}

\* C7: the cache drives the clone. With every requester of r cancelled and
\* the child of r exited, once nothing is left to run (no call under way, no
\* step of the scheduler possible, no further request made) the entry of r
\* is Settled.
C7_SettledWithoutRequesters ==
    \A r \in Remotes :
        (/\ \E c \in Tasks : IsProducerOf(c, r)
         /\ \A t \in Tasks : (LocCaller(t) /\ uri[t] = r) => pc[t] = "cancelled"
         /\ child[r] \in ExitStates
         /\ Quiet
         /\ ~ENABLED Progress)
            => cache[r].tag = "Available"

\* C8: deadlock freedom and termination. In every state either no call is
\* outstanding (each task is idle, has returned or was cancelled) or the
\* scheduler or a child can take a step; so, children exiting, no
\* outstanding call is left blocked for ever.
C8_DeadlockFree == Quiet \/ ENABLED ProgressCloneIn

\* The lock discipline by itself: with a call that panicked at line 40
\* counted as ended, some step is possible whenever a call is outstanding,
\* and under FairSpecCloneIn every call that was made ends.
DeadlockFreeUpToPanic ==
    (\A t \in Tasks : pc[t] \in {"idle", "done", "cancelled", "panicked"})
        \/ ENABLED ProgressCloneIn

EndsUpToPanic ==
    \A t \in Tasks : (pc[t] # "idle") ~> (pc[t] \in {"done", "cancelled", "panicked"})

\* C9: the cache mutex is held only inside the three synchronous matches on
\* the map; a task at an await of the shared future or of a child, or past
\* its return, does not hold it.
C9_NoLockAcrossAwait ==
    \A t \in Tasks :
        /\ mutex = t => pc[t] \in {"loc_match", "loc_insert", "lk_match"}
        /\ pc[t] \in {"loc_join", "loc_join_wait", "loc_request", "loc_request_wait",
                      "ci_output"} => mutex # t

\* The producer and a joiner are both suspended on the shared future while
\* the child runs, and the mutex is free.
C9_Witness ==
    \E a, b \in Tasks :
        /\ pc[a] = "loc_request_wait" /\ pc[b] = "loc_join_wait"
        /\ uri[a] = uri[b] /\ child[uri[a]] = "running"
        /\ mutex = NoTask

\* C10: the step in which lookup(r) returns yields None when r has no entry
\* or a Cloning one, and Some(v) exactly when the entry is Available(v).
C10_LookupResult ==
    [][\A t \in Tasks :
          (pc[t] = "lk_match" /\ pc'[t] = "done")
              => /\ cache[uri[t]].tag \in {"Vacant", "Cloning"}
                        => ret'[t] = [tag |-> "None"]
                 /\ cache[uri[t]].tag = "Available"
                        => ret'[t] = [tag |-> "Some", val |-> cache[uri[t]].val]
                 /\ ret'[t].tag = "Some" => cache[uri[t]].tag = "Available"]_vars

\* A lookup found the entry settled with a failed clone and returned
\* Some(Err(CloneFailed)).
C10_Witness ==
    \E t \in Tasks :
        /\ op[t] = "lookup" /\ pc[t] = "done" /\ observed[t] = "Settled"
        /\ ret[t].tag = "Some" /\ ret[t].val.tag = "Err"
        /\ ret[t].val = cache[uri[t]].val

\* C11: lookup never mutates. No step of a lookup call (its call, the lock,
\* the match and return, its cancellation) changes the cache map, the shared
\* futures or the children, and none runs the clone command.
C11_LookupIsReadOnly ==
    [][\A t \in Tasks :
          (op'[t] = "lookup" /\ pc'[t] # pc[t])
              => /\ cache' = cache
                 /\ request' = request
                 /\ child' = child
                 /\ spawned' = spawned]_vars

\* A lookup of a remote nobody asked for returned None and the remote still
\* has no entry.
C11_Witness ==
    \E t \in Tasks :
        /\ op[t] = "lookup" /\ pc[t] = "done" /\ observed[t] = "Vacant"
        /\ ret[t] = [tag |-> "None"]
        /\ cache[uri[t]] = [tag |-> "Vacant"]
        /\ spawned[uri[t]] = 0

\* Task t is inside lookup: between its call and its return.
InLookup(t) == pc[t] \in {"lk_lock", "lk_match"}

\* C12: non-blocking lookup. Under SchedFairSpec (runnable tasks are polled,
\* children need never exit) every lookup call that was made returns or is
\* dropped: from some point on no task is inside lookup, whatever the clones
\* in flight do.
C12_LookupReturns == <>[](\A t \in Tasks : ~InLookup(t))

\* A lookup has returned None for a remote whose clone is still running.
C12_Witness ==
    \E t \in Tasks :
        /\ op[t] = "lookup" /\ pc[t] = "done" /\ observed[t] = "InFlight"
        /\ child[uri[t]] = "running"
        /\ cache[uri[t]].tag = "Cloning"

\* C13: lookup(r) is None while a clone of r is in flight. In every state
\* where the clone child of r has been spawned and has not exited, the entry
\* of r is not Available, lookup(r) evaluates to None, and every lookup(r)
\* call that has returned has returned None.
C13_NoneWhileInFlight ==
    \A r \in Remotes :
        child[r] = "running"
            => /\ cache[r].tag # "Available"
               /\ lookup(cache, r) = [tag |-> "None"]
               /\ \A t \in Tasks :
                      (op[t] = "lookup" /\ uri[t] = r /\ pc[t] = "done")
                          => ret[t] = [tag |-> "None"]

\* The child of r is running after exactly one spawn, the producer awaits
\* it, and a lookup(r) has returned None.
C13_Witness ==
    \E r \in Remotes : \E a, b \in Tasks :
        /\ child[r] = "running" /\ spawned[r] = 1
        /\ IsProducerOf(a, r) /\ pc[a] = "loc_request_wait"
        /\ op[b] = "lookup" /\ uri[b] = r /\ pc[b] = "done"
        /\ ret[b] = [tag |-> "None"]

\* C14: the lifecycle of an entry is monotone. In every step an absent
\* entry stays absent or becomes Cloning, a Cloning entry stays Cloning or
\* becomes Available, and an Available entry is left exactly as it is (never
\* removed, never Cloning again, never given another result).
C14_MonotoneLifecycle ==
    [][\A r \in Remotes :
          /\ cache[r].tag = "Vacant" => cache'[r].tag \in {"Vacant", "Cloning"}
          /\ cache[r].tag = "Cloning" => cache'[r].tag \in {"Cloning", "Available"}
          /\ cache[r].tag = "Available" => cache'[r] = cache[r]]_vars

\* An entry was settled with a failure by its producer, and a later
\* lookup_or_clone of the same remote found it settled and returned while the
\* entry still holds the producer's result.
C14_Witness ==
    \E r \in Remotes : \E a, b \in Tasks :
        /\ IsProducerOf(a, r) /\ pc[a] = "done" /\ ret[a].tag = "Err"
        /\ op[b] = "lookup_or_clone" /\ uri[b] = r
        /\ observed[b] = "Settled" /\ pc[b] = "done"
        /\ cache[r] = [tag |-> "Available", val |-> ret[a]]

\* The value the failure policy prescribes for remote r, given its child.
FollowsPolicy(v, r) ==
    /\ child[r] = "exit128" => v.tag = "Err" /\ v.kind = "CloneFailed"
    /\ child[r] = "none" => v.tag = "Err" /\ v.kind = "IoError"
    /\ v.tag = "Ok" => child[r] = "exit0" /\ v.path = <<"pool_root", <<"sha256", r>>>>

\* C15: failure policy. A settled entry, and every value lookup_or_clone(r)
\* has returned, is Err(CloneFailed) when the clone child of r exited
\* non-zero, Err(IoError) when the child could not be launched, and Ok(path)
\* only when the child exited with status zero.
C15_FailurePolicy ==
    \A r \in Remotes :
        /\ cache[r].tag = "Available" => FollowsPolicy(cache[r].val, r)
        /\ \A t \in Tasks :
               (LocReturned(t) /\ uri[t] = r) => FollowsPolicy(ret[t], r)

\* Launching the child of r failed: the entry is settled with Err(IoError)
\* and the producer has returned that error; for another remote the child
\* exited non-zero and its entry is settled with Err(CloneFailed).
C15_Witness ==
    \E r, q \in Remotes : \E a \in Tasks :
        /\ child[r] = "none" /\ spawned[r] = 1
        /\ IsProducerOf(a, r) /\ pc[a] = "done"
        /\ ret[a].tag = "Err" /\ ret[a].kind = "IoError"
        /\ cache[r] = [tag |-> "Available", val |-> ret[a]]
        /\ child[q] = "exit128"
        /\ cache[q].tag = "Available" /\ cache[q].val.tag = "Err"
        /\ cache[q].val.kind = "CloneFailed"

\* C16: clone_in propagates the error of the pooled clone. Every clone_in
\* call whose lookup_or_clone returned Err(e) has returned Err(e) itself
\* (the handler has not aborted) and has spawned no working-copy child.
C16_CloneInPropagatesErr ==
    \A t \in Tasks :
        (op[t] = "clone_in" /\ LocReturned(t) /\ ret[t].tag = "Err")
            => /\ pc[t] = "done"
               /\ ci_ret[t] = ret[t]
               /\ wc[t] = "none"

\* C17: clone_in ordering. Whenever a clone_in call has spawned its
\* working-copy child, the clone child of its remote has exited with status
\* zero, lookup_or_clone has returned Ok(root/hash(remote)) to the call, and
\* the command was `clone <remote> --reference <that path> --dissociate`.
C17_ReferenceAfterPool ==
    \A t \in Tasks :
        wc[t] # "none"
            => /\ op[t] = "clone_in"
               /\ child[uri[t]] = "exit0"
               /\ ret[t] = [tag |-> "Ok", path |-> <<"pool_root", <<"sha256", uri[t]>>>>]
               /\ wc_cmd[t] = <<"clone", uri[t], "--reference", ret[t].path, "--dissociate">>

\* Two clone_in calls on one remote, the producer of the pooled clone and a
\* joiner, have both spawned their working-copy child after the one pooled
\* clone succeeded.
C17_Witness ==
    \E a, b \in Tasks :
        /\ a # b /\ uri[a] = uri[b]
        /\ op[a] = "clone_in" /\ op[b] = "clone_in"
        /\ observed[a] = "Vacant" /\ observed[b] \in {"InFlight", "InFlightOrphaned"}
        /\ wc[a] # "none" /\ wc[b] # "none"
        /\ spawned[uri[a]] = 1 /\ child[uri[a]] = "exit0"

\* C18: clone_in returns Ok(()) only when the working copy was made. Every
\* clone_in call that has returned Ok(()) had its working-copy child exit
\* with status zero; after a non-zero exit it has returned Err(CloneFailed).
C18_OkOnlyWhenMaterialized ==
    \A t \in Tasks :
        (op[t] = "clone_in" /\ pc[t] = "done")
            => /\ ci_ret[t] = [tag |-> "Ok"] => wc[t] = "exit0"
               /\ wc[t] = "exit128"
                      => ci_ret[t].tag = "Err" /\ ci_ret[t].kind = "CloneFailed"

\* C19: PoolHelper mode equivalence. In either mode a PoolHelper::clone_in
\* call that got its result from the working-copy process returns the kind
\* that goes with the outcome of that process: IoError when it could not be
\* launched, CloneFailed when it exited non-zero, Ok(()) when it exited with
\* status zero; so both modes return the same kind for the same outcome.
C19_ModeEquivalence ==
    \A t \in Tasks :
        (call[t] \in {"local", "rpc"} /\ ph_ret[t].tag = "RpcOk")
            => /\ wc[t] = "none"
                      => ph_ret[t].val.tag = "Err" /\ ph_ret[t].val.kind = "IoError"
               /\ wc[t] = "exit128"
                      => ph_ret[t].val.tag = "Err" /\ ph_ret[t].val.kind = "CloneFailed"
               /\ wc[t] = "exit0" => ph_ret[t].val = [tag |-> "Ok"]

C20_LocalAfterSet ==
    \E t \in Tasks :
        /\ built_env = "unset" /\ env_var = "set"
        /\ call[t] = "local" /\ ph_ret[t].tag = "RpcOk" /\ wc[t] = "exit128"

\* C21: RPC deadline. When a client's lookup_or_clone(r) request ended with
\* a transport error after the clone of r was started on the server, that
\* clone is neither stopped nor started again, every other client call for r
\* that was answered carries the outcome of that one clone, and once nothing
\* is left to run the entry of r is settled with that outcome.
C21_DeadlineKeepsClone ==
    \A r \in Remotes : \A a \in Tasks :
        (/\ call[a] = "rpc" /\ op[a] = "lookup_or_clone" /\ uri[a] = r
         /\ ph_ret[a] = [tag |-> "RpcError", kind |-> "DeadlineExceeded"]
         /\ spawned[r] >= 1)
            => /\ spawned[r] = 1
               /\ child[r] \in {"none", "running", "exit0", "exit128"}
               /\ \A b \in Tasks :
                      (/\ b # a /\ call[b] = "rpc" /\ op[b] = "lookup_or_clone"
                       /\ uri[b] = r /\ ph_ret[b].tag = "RpcOk")
                          => IsOutcomeOf(ph_ret[b].val, r)
               /\ (Quiet /\ ~ENABLED Progress)
                      => cache[r].tag = "Available" /\ IsOutcomeOf(cache[r].val, r)

C23_TransportVsService ==
    /\ \A r \in Remotes :
           (cache[r].tag = "Available" /\ cache[r].val.tag = "Err")
               => /\ child[r] \in {"none", "exit128"}
                  /\ cache[r].val.kind \in {"IoError", "CloneFailed"}
    /\ \A t \in Tasks :
           (/\ call[t] = "rpc" /\ LocReturned(t) /\ ret[t].tag = "Err"
            /\ ph_ret[t] # [tag |-> "NoVal"])
               => ph_ret[t] = [tag |-> "RpcOk", val |-> ret[t]]

\* C24: shutdown. Once the Pool is destroyed its root directory is removed
\* and no clone child spawned by the Pool is still running.
C24_ShutdownStopsChildren ==
    root_dir = "removed"
        => /\ \A r \in Remotes : child[r] # "running"
           /\ \A t \in Tasks : wc[t] # "running"

\* Task u, in the middle of a call, is not held up by anything but its own
\* remote: it can take a step, or it waits for the mutex and the holder can
\* take a step, or it awaits the child of its own remote or its own
\* working-copy child.
NotHeldUp(u) ==
    \/ ENABLED (PoolStep(u) \/ CloneInStep(u))
    \/ /\ pc[u] \in {"loc_lock", "lk_lock", "loc_relock"}
       /\ mutex \in Tasks
       /\ ENABLED PoolStep(mutex)
    \/ Suspended(u) /\ child[uri[u]] = "running"
    \/ pc[u] = "ci_output" /\ wc[u] = "running"

\* C25: a wedged child wedges only its own remote. While the clone child of
\* r runs, the entry of r is Cloning, lookup(r) is None and no
\* lookup_or_clone(r) has returned; and every call under way for another
\* remote is not held up by it: it has returned, or it can go on, or it
\* waits only for the mutex's holder (who can go on) or for a child of its
\* own.
C25_WedgeIsLocal ==
    \A r \in Remotes :
        child[r] = "running"
            => /\ cache[r].tag = "Cloning"
               /\ lookup(cache, r) = [tag |-> "None"]
               /\ \A t \in Tasks : (LocCaller(t) /\ uri[t] = r) => ~LocReturned(t)
               /\ \A u \in Tasks :
                      (uri[u] \notin {r, "none"} /\ pc[u] \notin {"idle", "done", "cancelled"})
                          => NotHeldUp(u)

\* C26: distinct remotes clone in parallel. A lookup_or_clone on its way to
\* the first spawn for its remote never waits for a child: at the lock the
\* mutex is free or its holder releases it in the holder's next step, which
\* is enabled; at the match a step is enabled; and with the Shared future
\* not yet polled the spawn itself is enabled, whatever other children run.
C26_ParallelClones ==
    \A t \in Tasks :
        (LocCaller(t) /\ spawned[uri[t]] = 0)
            => /\ pc[t] = "loc_lock"
                      => \/ mutex = NoTask
                         \/ mutex \in Tasks /\ ENABLED (PoolStep(mutex) /\ mutex' = NoTask)
               /\ pc[t] = "loc_match" => ENABLED PoolStep(t)
               /\ (pc[t] = "loc_request" /\ request[uri[t]] = [st |-> "Lazy"])
                      => ENABLED PollSpawn(t)

\* The children of two remotes are running at once, each spawned once, and
\* both producers await them with the mutex free.
C26_Witness ==
    \E r, q \in Remotes : \E a, b \in Tasks :
        /\ r # q
        /\ child[r] = "running" /\ child[q] = "running"
        /\ spawned[r] = 1 /\ spawned[q] = 1
        /\ IsProducerOf(a, r) /\ IsProducerOf(b, q)
        /\ pc[a] = "loc_request_wait" /\ pc[b] = "loc_request_wait"
        /\ mutex = NoTask

\* Some lookup_or_clone(r) calls were made and every one of them has
\* returned (none is under way, none was cancelled).
AllReturned(r) ==
    /\ \E a \in Tasks : op[a] = "lookup_or_clone" /\ uri[a] = r
    /\ \A a \in Tasks : (op[a] = "lookup_or_clone" /\ uri[a] = r) => pc[a] = "done"

DestinationOf(r) == <<child_cmd[r].cwd, child_cmd[r].args[3]>>

\* C28: path correctness and isolation. Every Ok(path) returned for r is
\* pool_root / hash(r), which is the directory the clone child of r wrote;
\* the clone command of r ran at most once; and the children of two
\* distinct remotes were given distinct directories.
C28_PathIsolation ==
    \A r \in Remotes :
        /\ spawned[r] <= 1
        /\ \A t \in Tasks :
               (LocReturned(t) /\ uri[t] = r /\ ret[t].tag = "Ok")
                   => /\ ret[t].path = <<"pool_root", <<"sha256", r>>>>
                      /\ child_cmd[r] # [tag |-> "NoVal"]
                      /\ ret[t].path = DestinationOf(r)
        /\ \A q \in Remotes :
               (q # r /\ child_cmd[r] # [tag |-> "NoVal"] /\ child_cmd[q] # [tag |-> "NoVal"])
                   => DestinationOf(r) # DestinationOf(q)

\* Two remotes were cloned, each by one child, and their callers were
\* returned two different paths, each the directory its child wrote.
C28_Witness ==
    \E r, q \in Remotes : \E a, b \in Tasks :
        /\ r # q /\ uri[a] = r /\ uri[b] = q
        /\ LocReturned(a) /\ LocReturned(b)
        /\ ret[a].tag = "Ok" /\ ret[b].tag = "Ok" /\ ret[a] # ret[b]
        /\ ret[a].path = DestinationOf(r) /\ ret[b].path = DestinationOf(q)

\* C30: every git process spawned by the Pool or by PoolHelper has
\* GIT_TERMINAL_PROMPT=0 set, and every clone child of the Pool runs in the
\* pool root with the arguments (clone, r, hash(r)).
C30_SpawnEnvironment ==
    /\ \A r \in Remotes :
           /\ child[r] # "none" => child_cmd[r] # [tag |-> "NoVal"]
           /\ child_cmd[r] # [tag |-> "NoVal"]
                  => /\ <<"GIT_TERMINAL_PROMPT", "0">> \in child_cmd[r].env
                     /\ child_cmd[r].cwd = "pool_root"
                     /\ child_cmd[r].args = <<"clone", r, <<"sha256", r>>>>
    /\ \A t \in Tasks :
           wc[t] # "none" => <<"GIT_TERMINAL_PROMPT", "0">> \in wc_env[t]

\* Served by the Server's Pool, a clone_in has spawned the pooled clone of
\* its remote and then its working-copy command, both with prompting off.
C30_Witness ==
    \E t \in Tasks :
        /\ call[t] = "rpc" /\ op[t] = "clone_in"
        /\ child_cmd[uri[t]] # [tag |-> "NoVal"] /\ child[uri[t]] = "exit0"
        /\ wc[t] = "running" /\ Len(wc_cmd[t]) = 5
        /\ <<"GIT_TERMINAL_PROMPT", "0">> \in wc_env[t]

\* In local mode PoolHelper has spawned its command with prompting off.
C30_LocalSpawn ==
    \E t \in Tasks :
        /\ call[t] = "local" /\ wc[t] = "running" /\ wc_cmd[t] = <<"clone", uri[t]>>
        /\ <<"GIT_TERMINAL_PROMPT", "0">> \in wc_env[t]

\* The pooled clone of r failed: git could not be spawned, or exited with a
\* status that is not success.
CloneFailed(r) ==
    \/ child[r] = "exit128"
    \/ request[r].st = "Ready" /\ request[r].out.tag = "Err"

\* C31: no retries anywhere. A PoolHelper::clone_in call in Remote mode sends
\* one request and never runs the local command; once it has a value (a
\* transport error included) that value stays and neither its handler nor a
\* command of its own takes a further step; and once the clone of a remote
\* has failed, no call runs clone_repo for it again.
C31_NoRetries ==
    [][ /\ \A t \in Tasks :
             /\ sent'[t] <= 1
             /\ sent[t] = 1 => sent'[t] = 1 /\ call'[t] = "rpc" /\ op'[t] = "clone_in"
             /\ sent'[t] = 1 => wc_env'[t] # pool_helper_env
             /\ ph_ret[t] # NoVal =>
                    /\ ph_ret'[t] = ph_ret[t]
                    /\ pc'[t] = pc[t]
                    /\ wc'[t] = wc[t]
        /\ \A r \in Remotes :
             CloneFailed(r) =>
                /\ spawned'[r] = spawned[r]
                /\ child'[r] = child[r]
                /\ request'[r].st # "Lazy" ]_vars

\* A Remote-mode call whose clone failed has returned the transport error,
\* one request sent and one clone run.
C31_Witness ==
    \E t \in Tasks :
        /\ call[t] = "rpc"
        /\ ph_ret[t] = RpcError
        /\ sent[t] = 1
        /\ CloneFailed(uri[t])
        /\ spawned[uri[t]] = 1
        /\ wc[t] = "none"

\* A Local-mode call of PoolHelper::clone_in.
LocalCall(t) == call[t] = "local"

\* The call has gone through Command::output: its git process exists, or
\* the launch failed and the call returned the launch error.
Launched(t) ==
    \/ wc[t] # "none" /\ wc_cmd[t] = <<"clone", uri[t]>>
    \/ /\ wc[t] = "none"
       /\ ph_ret[t] \in {RpcOk(Err("IoError", "failed to call status() on command")),
                         RpcOk(Err("CloneFailed", "io error"))}

\* The Pool's state as Pool::new leaves it.
PoolUntouched ==
    /\ cache = [r \in Remotes |-> Vacant]
    /\ request = [r \in Remotes |-> NoRequest]
    /\ spawned = [r \in Remotes |-> 0]
    /\ child = [r \in Remotes |-> "none"]
    /\ mutex = NoTask

\* C32: Local mode performs no deduplication. With no endpoint configured
\* every PoolHelper::clone_in call that is past its command has launched a
\* git command of its own for its remote, whatever the other calls did for
\* the same remote, so the number of git processes is the number of calls
\* whose launch did not fail; a call that has not reached its command has no
\* process; and no cache state is kept: the Pool's map, futures and children
\* stay as they were and no request is sent.
C32_LocalNoDedup ==
    inner = "None" =>
        /\ PoolUntouched
        /\ \A t \in Tasks :
              /\ pc[t] # "idle" => LocalCall(t) /\ sent[t] = 0
              /\ pc[t] \in {"ph_output", "yb_output", "done"} => Launched(t)
              /\ pc[t] \in {"idle", "ph_command", "yb_command"} => wc[t] = "none"
        /\ Cardinality({t \in Tasks : wc[t] # "none"})
              = Cardinality({t \in Tasks : pc[t] \in {"ph_output", "yb_output", "done"}
                                            /\ ph_ret[t] \notin
                                                 {RpcOk(Err("IoError", "failed to call status() on command")),
                                                  RpcOk(Err("CloneFailed", "io error"))}})

\* Two Local-mode calls for the same remote, made through the same copy of
\* the helper, each with a git process of its own running at the same time.
C32_Witness ==
    \E t, u \in Tasks :
        /\ t # u
        /\ LocalCall(t) /\ LocalCall(u)
        /\ op[t] = "ph_local" /\ op[u] = "ph_local"
        /\ uri[t] = uri[u]
        /\ wc[t] = "running" /\ wc[u] = "running"

PastCommand(r) ==
    {t \in Tasks : /\ op[t] = "clone_in" /\ uri[t] = r
                   /\ \/ pc[t] = "ci_output"
                      \/ pc[t] = "done" /\ ci_ret[t] # IoError}

\* C34: concurrent clone_in calls share the pool clone but not the working
\* copy. For a remote whose pooled clone succeeded, the pool clone command
\* was run once, every clone_in call past its command has a working-copy
\* process of its own referencing the pooled path, a call not yet there has
\* none, and the working-copy processes are as many as those calls.
C34_SharedPoolOwnCopy ==
    \A r \in Remotes :
        child[r] = "exit0" =>
            /\ spawned[r] = 1
            /\ \A t \in PastCommand(r) :
                  /\ wc[t] # "none"
                  /\ wc_cmd[t] = clone_in_args(r, join(root, dest_dir_name(r)))
            /\ \A t \in Tasks :
                  (uri[t] = r /\ wc[t] # "none") => t \in PastCommand(r)
            /\ Cardinality({t \in Tasks : uri[t] = r /\ wc[t] # "none"})
                  = Cardinality(PastCommand(r))

\* Two overlapping clone_in calls for one remote, one having found the entry
\* vacant and the other in flight, both returned Ok: one pool clone, two
\* working-copy processes.
C34_Witness ==
    \E r \in Remotes : \E a, b \in Tasks :
        /\ a # b
        /\ op[a] = "clone_in" /\ op[b] = "clone_in"
        /\ uri[a] = r /\ uri[b] = r
        /\ observed[a] = "Vacant" /\ observed[b] \in {"InFlight", "InFlightOrphaned"}
        /\ pc[a] = "done" /\ pc[b] = "done"
        /\ ci_ret[a] = OkUnit /\ ci_ret[b] = OkUnit
        /\ child[r] = "exit0" /\ spawned[r] = 1
        /\ wc[a] \in ExitStates /\ wc[b] \in ExitStates

\* C35: connect_or_local never silently degrades. A Local helper (inner =
\* None) exists only if the variable was unset when connect_or_local read it;
\* if it was set, the result is a Remote helper or the connection error, and
\* after the error there is no helper: no clone_in call is ever made, no git
\* command is run and no request is sent.
C35_NoSilentDegrade ==
    /\ inner = "None" => built_env = "unset"
    /\ built_env \in {"set", "set_not_unicode"} => inner \in {"Some", "ConnectFailed"}
    /\ built_env = "unset" => inner = "None"
    /\ inner = "ConnectFailed" =>
          /\ built_env = "set"
          /\ \A t \in Tasks :
                /\ pc[t] = "idle" /\ call[t] = "none"
                /\ wc[t] = "none" /\ sent[t] = 0 /\ ph_ret[t] = NoVal

\* The part of C35 about a failed connection: with the variable set to a
\* readable value, the result is a Remote helper or the error, and after the
\* error no call is made.
C35_ConnectErrorIsReturned ==
    /\ built_env = "set" => inner \in {"Some", "ConnectFailed"}
    /\ inner = "ConnectFailed" =>
          /\ built_env = "set"
          /\ \A t \in Tasks : pc[t] = "idle" /\ call[t] = "none" /\ wc[t] = "none"

\* C36: in Local mode PoolHelper::clone_in never reports a transport error.
\* Every Local-mode call that has returned has returned an outer Ok, so the
\* caller's unwrap does not panic; with the helper of concurrent_git_pool a
\* launch failure is the inner IoError, a non-zero exit the inner CloneFailed
\* and a zero exit the inner Ok.
C36_LocalOuterOk ==
    \A t \in Tasks :
        LocalCall(t) =>
            /\ ph_ret[t] # RpcError
            /\ pc[t] = "done" =>
                  /\ ph_ret[t].tag = "RpcOk"
                  /\ unwrap(ph_ret[t]).tag \in {"Ok", "Err"}
                  /\ op[t] = "ph_local" =>
                        /\ wc[t] = "none" => unwrap(ph_ret[t]).kind = "IoError"
                        /\ wc[t] = "exit128" => unwrap(ph_ret[t]).kind = "CloneFailed"
                        /\ wc[t] = "exit0" => unwrap(ph_ret[t]) = OkUnit

\* Two Local-mode calls returned: one whose git could not be launched, with
\* Ok(Err(IoError)), and one whose git exited with a non-zero status, with
\* Ok(Err(CloneFailed)).
C36_Witness ==
    \E t, u \in Tasks :
        /\ LocalCall(t) /\ LocalCall(u)
        /\ op[t] = "ph_local" /\ op[u] = "ph_local"
        /\ pc[t] = "done" /\ pc[u] = "done"
        /\ wc[t] = "none" /\ unwrap(ph_ret[t]).kind = "IoError"
        /\ wc[u] = "exit128" /\ unwrap(ph_ret[u]).kind = "CloneFailed"
====
